---- MODULE Spec2Model ----
(***************************************************************************)
(* Streaming clients of the write_agent frontend.                          *)
(*                                                                         *)
(*   services/api.ts   parseSseJson, rewriteWithStream, reviewWithStream,  *)
(*                     coverWithStream, startRewrite, startReview,         *)
(*                     startCover, extractStyleWithStream, runFullWorkflow *)
(*   pages/HomePage    handleRewrite, the cancel button, the unmount effect*)
(*   pages/StylesPage  handleExtract                                       *)
(*   pages/CoversPage  handleGenerateCover, the rewrite select, loadData   *)
(*                                                                         *)
(* Text is a sequence of one-character strings.  A JSON document is the    *)
(* text "{" t a "}" or "{" t a b "}": t is the value of "type" (of "node"  *)
(* in a workflow event), a the stage's first field (delta, task_id,        *)
(* review_id, id, message, final_content, state.rewrite_id) and b its      *)
(* second field (actual_words, state.review_id).  The character "0" is a   *)
(* field that is absent (or falsy).  Every other text is not JSON.         *)
(***************************************************************************)
EXTENDS Integers, Sequences, FiniteSets, TLC

\* ------------------------------------------------------------------ bounds

\* In one run: the EventSource objects created, plus the callbacks their
\* handlers invoked, plus the garbled messages they received.
MaxEvents == 4
\* Blocks in one response body.
MaxBlocks == 2

\* -------------------------------------------------------------------- text

NL == "\n"

\* The marker of a payload line, "data: ".
DataPrefix == <<"d", "a", "t", "a", ":", " ">>

Null == [type |-> "null"]

\* The value of "type" that a type character stands for.
TypeName(c) ==
  CASE c = "S" -> "start"
    [] c = "P" -> "progress"
    [] c = "C" -> "content"
    [] c = "D" -> "done"
    [] c = "E" -> "error"
    [] OTHER -> "other"

\* Faulty variant: a text that is no JSON is passed on as an error frame.
parseSseJsonFailsLoudly(raw) ==
  IF /\ Len(raw) \in {4, 5}
     /\ raw[1] = "{"
     /\ raw[Len(raw)] = "}"
     /\ \A i \in 2..(Len(raw) - 1) : raw[i] \notin {"{", "}", NL}
  THEN [type |-> TypeName(raw[2]), a |-> raw[3],
        b |-> IF Len(raw) = 5 THEN raw[4] ELSE "0"]
  ELSE [type |-> "error", a |-> "0", b |-> "0"]

\* JSON.parse inside try/catch: the object, or null when the text is no JSON.
parseSseJson(raw) ==
  IF /\ Len(raw) \in {4, 5}
     /\ raw[1] = "{"
     /\ raw[Len(raw)] = "}"
     /\ \A i \in 2..(Len(raw) - 1) : raw[i] \notin {"{", "}", NL}
  THEN [type |-> TypeName(raw[2]), a |-> raw[3],
        b |-> IF Len(raw) = 5 THEN raw[4] ELSE "0"]
  ELSE Null

\* Number(x || 0).  A value that is no number gives NaN, which every test the
\* code applies (n > 0, !n) treats as it treats 0.
ToNumber(c) ==
  CASE c = "1" -> 1
    [] c = "2" -> 2
    [] c = "-" -> -1
    [] OTHER -> 0

\* Characters of the preview that StylesPage keeps.
PreviewLimit == 4000

\* The field "L" is a text of PreviewLimit characters.
LongText == [i \in 1..PreviewLimit |-> "x"]

\* String(x || ""): the absent field gives the empty text.
ToText(c) == IF c = "0" THEN <<>> ELSE IF c = "L" THEN LongText ELSE <<c>>

\* String(x || fallback) for a message.
ToMessage(c, fallback) == IF c = "0" THEN fallback ELSE c

RECURSIVE SplitFrom(_, _, _, _, _)
\* String.prototype.split(sep) for a separator of one or two characters:
\* the leftmost matches, left to right, none overlapping.
SplitFrom(text, sep, i, cur, acc) ==
  IF i > Len(text) THEN Append(acc, cur)
  ELSE IF /\ i + Len(sep) - 1 <= Len(text)
          /\ SubSeq(text, i, i + Len(sep) - 1) = sep
       THEN SplitFrom(text, sep, i + Len(sep), <<>>, Append(acc, cur))
       ELSE SplitFrom(text, sep, i + 1, Append(cur, text[i]), acc)

Split(text, sep) == SplitFrom(text, sep, 1, <<>>, <<>>)

\* line.startsWith("data: ")
StartsWithData(line) ==
  Len(line) >= Len(DataPrefix) /\ SubSeq(line, 1, Len(DataPrefix)) = DataPrefix

\* chunk.split("\n").find(startsWith("data: ")), then slice(6) and
\* parseSseJson: Null when the block has no payload line or no JSON in it.
DecodeBlock(chunk) ==
  LET lines == Split(chunk, <<NL>>)
      idx == {i \in 1..Len(lines) : StartsWithData(lines[i])}
  IN IF idx = {} THEN Null
     ELSE LET first == CHOOSE i \in idx : \A j \in idx : i <= j
          IN parseSseJson(SubSeq(lines[first], Len(DataPrefix) + 1, Len(lines[first])))

\* Faulty variant: the tail is popped and not kept.
SplitBufferDropsTail(buffer) ==
  LET parts == Split(buffer, <<NL, NL>>)
  IN [chunks |-> SubSeq(parts, 1, Len(parts) - 1), rest |-> <<>>]

\* Faulty variant: the tail is decoded with the complete segments.
SplitBufferEager(buffer) ==
  [chunks |-> Split(buffer, <<NL, NL>>), rest |-> <<>>]

\* buffer.split("\n\n") and chunks.pop() || "": the complete segments and
\* the tail that stays in the buffer.
SplitBuffer(buffer) ==
  LET parts == Split(buffer, <<NL, NL>>)
  IN [chunks |-> SubSeq(parts, 1, Len(parts) - 1), rest |-> parts[Len(parts)]]

\* ------------------------------------------------------------------- state

VARIABLES
  entry,            \* the entry point this run exercises
  es,               \* the EventSource objects created, in creation order
  log,              \* per EventSource: the callbacks its handlers invoked, in
                    \* order, and "garbled" for each message that was no JSON
  dropped,          \* per EventSource: a wire event found it closed
  heard,            \* per EventSource and entry of its log: the event.data of the
                    \* message handled, the empty text for an error event
  cancelled,        \* the EventSources the cancel button was clicked on
  mounted,          \* HomePage is mounted
  isLoading,        \* HomePage state
  rewrittenContent, \* HomePage state
  resultWordCount,  \* HomePage state
  eventSourceRef,   \* HomePage eventSourceRef.current: 0 is null
  loadDataCalls,    \* loadData() calls made by onDone
  taskId,           \* startRewrite taskId, startReview reviewId: 0 is null
  settled,          \* the settled flag of startRewrite, startReview, startCover
  promise,          \* the promise returned by the entry point
  fetch,            \* the record fetch: its state and the id asked for
  fetches,          \* the ids of the record fetches issued, in order
  idsHeard,         \* the ids the stream announced: start frames, cover's done;
                    \* on HomePage, those of the connection opened last
  sent,             \* the events the server put into the response body
  body,             \* the response body of the fetch() call, whole
  pos,              \* characters of the body that reader.read() has returned
  reader,           \* the response-body reader
  buffer,           \* extractStyleWithStream, runFullWorkflow: buffer
  createdStyle,     \* extractStyleWithStream: createdStyle
  frames,           \* extractStyleWithStream: the frames decoded, in order
  events,           \* runFullWorkflow: events
  stylesIsLoading,  \* StylesPage state: isLoading
  extractStatus,    \* StylesPage state
  extractPreview,   \* StylesPage state
  selectedRewriteId, \* CoversPage state: 0 is null
  covers,           \* CoversPage state: the cover record of each rewrite, 0 is none
  isGenerating,     \* CoversPage state
  coverRequest,     \* handleGenerateCover: the selectedRewriteId of its render
  coversLoading     \* CoversPage: loadData awaits getCoversByRewrites

esVars == <<es, log, dropped, heard, cancelled>>
startVars == <<taskId, settled, promise, fetch, fetches, idsHeard>>
pageVars == <<mounted, isLoading, rewrittenContent, resultWordCount,
              eventSourceRef, loadDataCalls>>
bodyVars == <<sent, body, pos, reader, buffer, createdStyle, frames, events>>
stylesVars == <<stylesIsLoading, extractStatus, extractPreview>>
coversVars == <<selectedRewriteId, covers, isGenerating, coverRequest, coversLoading>>
vars == <<entry, esVars, pageVars, startVars, bodyVars, stylesVars, coversVars>>

StartEntries == {"startRewrite", "startReview", "startCover"}
BodyEntries == {"extractStyleWithStream", "runFullWorkflow"}
Entries == {"HomePage"} \cup StartEntries \cup BodyEntries

\* ------------------------------------------------------------ EventSource

\* new EventSource(url): open until close() is called on it.
NewEventSource(owner) == [owner |-> owner, readyState |-> "open", closedBy |-> "none"]

\* eventSource.close(): no effect on a closed one.
Close(e, by) ==
  IF e.readyState = "closed" THEN e
  ELSE [e EXCEPT !.readyState = "closed", !.closedBy = by]

RECURSIVE SumLen(_)
SumLen(seqs) == IF seqs = <<>> THEN 0 ELSE Len(Head(seqs)) + SumLen(Tail(seqs))

\* The EventSources and the entries of their logs.
EventCount == Len(es) + SumLen(log)

\* One callback invocation.
Call(cb, num, text, data) == [cb |-> cb, num |-> num, text |-> text, data |-> data]

NoCalls == [cbs |-> <<>>, close |-> FALSE]

\* eventSource.onmessage of rewriteWithStream: the callbacks it invokes for
\* event.data = raw, and whether it closes the EventSource after them.
\* hasOnStart: the optional onStart was supplied.
rewriteOnMessage(raw, hasOnStart) ==
  LET data == parseSseJson(raw)
  IN IF data = Null THEN NoCalls
     ELSE CASE data.type = "content" ->
                 [cbs |-> <<Call("onChunk", 0, ToText(data.a), data)>>, close |-> FALSE]
            [] data.type = "start" ->
                 IF ToNumber(data.a) > 0 /\ hasOnStart
                 THEN [cbs |-> <<Call("onStart", ToNumber(data.a), <<>>, data)>>,
                       close |-> FALSE]
                 ELSE NoCalls
            [] data.type = "done" ->
                 [cbs |-> <<Call("onDone", 0, <<>>, data)>>, close |-> TRUE]
            [] data.type = "error" ->
                 [cbs |-> <<Call("onError", 0, <<ToMessage(data.a, "Unknown error")>>, data)>>,
                  close |-> TRUE]
            [] OTHER -> NoCalls

\* Faulty variant of onerror: onError is reported and close() is left out.
rewriteOnErrorStaysOpen ==
  [cbs |-> <<Call("onError", 0, <<"Connection error">>, Null)>>, close |-> FALSE]

\* eventSource.onerror of rewriteWithStream.
rewriteOnError == [cbs |-> <<Call("onError", 0, <<"Connection error">>, Null)>>, close |-> TRUE]

\* eventSource.onmessage of reviewWithStream.
reviewOnMessage(raw, hasOnStart) ==
  LET data == parseSseJson(raw)
  IN IF data = Null THEN NoCalls
     ELSE CASE data.type = "content" ->
                 [cbs |-> <<Call("onChunk", 0, ToText(data.a), data)>>, close |-> FALSE]
            [] data.type = "start" ->
                 IF ToNumber(data.a) > 0 /\ hasOnStart
                 THEN [cbs |-> <<Call("onStart", ToNumber(data.a), <<>>, data)>>,
                       close |-> FALSE]
                 ELSE NoCalls
            [] data.type = "done" ->
                 [cbs |-> <<Call("onDone", 0, <<>>, data)>>, close |-> TRUE]
            [] data.type = "error" ->
                 [cbs |-> <<Call("onError", 0, <<ToMessage(data.a, "Unknown error")>>, data)>>,
                  close |-> TRUE]
            [] OTHER -> NoCalls

\* Faulty variant of onerror: the EventSource is left to reconnect.
reviewOnErrorStaysOpen ==
  [cbs |-> <<Call("onError", 0, <<"Connection error">>, Null)>>, close |-> FALSE]

\* eventSource.onerror of reviewWithStream.
reviewOnError == [cbs |-> <<Call("onError", 0, <<"Connection error">>, Null)>>, close |-> TRUE]

\* eventSource.onmessage of coverWithStream: a is message (error frame) or id
\* (done frame), b is the error frame's "error" field.
coverOnMessage(raw) ==
  LET data == parseSseJson(raw)
  IN IF data = Null THEN NoCalls
     ELSE IF data.type = "error"
          THEN [cbs |-> <<Call("onError", 0,
                               <<ToMessage(data.a, ToMessage(data.b, "Unknown error"))>>,
                               data)>>,
                close |-> TRUE]
          ELSE IF data.type = "done"
               THEN [cbs |-> <<Call("onProgress", 0, <<>>, data),
                               Call("onDone", 0, <<>>, data)>>,
                     close |-> TRUE]
               ELSE [cbs |-> <<Call("onProgress", 0, <<>>, data)>>, close |-> FALSE]

\* eventSource.onerror of coverWithStream.
coverOnError == [cbs |-> <<Call("onError", 0, <<"Connection error">>, Null)>>, close |-> TRUE]

\* ---------------------------------------------------------------- HomePage

\* The text "[配图建议|名称:" is the one character "[" of the model; it counts
\* as its nine characters where it stays in the text.
PlaceholderOpen == "["
PlaceholderOpenLen == 9

RECURSIVE StripPlaceholders(_, _)
\* content.replace(IMAGE_PLACEHOLDER_REGEX, ""), from position i on: the opening
\* text, one or more characters other than "]", then "]".
StripPlaceholders(text, i) ==
  IF i > Len(text) THEN <<>>
  ELSE LET ends == {j \in (i + 1)..Len(text) : text[j] = "]"}
           j == IF ends = {} THEN 0 ELSE CHOOSE k \in ends : \A m \in ends : k <= m
       IN IF text[i] = PlaceholderOpen /\ j >= i + 2
          THEN StripPlaceholders(text, j + 1)
          ELSE <<text[i]>> \o StripPlaceholders(text, i + 1)

RECURSIVE TextLength(_)
TextLength(text) ==
  IF text = <<>> THEN 0
  ELSE (IF Head(text) = PlaceholderOpen THEN PlaceholderOpenLen ELSE 1)
       + TextLength(Tail(text))

\* countWords: the length without placeholders and without whitespace.
countWords(content) ==
  TextLength(SelectSeq(StripPlaceholders(content, 1), LAMBDA c : c \notin {" ", NL}))

\* What the server side may put on the wire of a rewrite stream.
RewriteDocs ==
  { <<"{", "C", "a", "}">>, <<"{", "C", " ", "}">>, <<"{", "C", "0", "}">>,
    <<"{", "S", "1", "}">>, <<"{", "D", "0", "}">>, <<"{", "D", "b", "2", "}">>,
    <<"{", "D", " ", "}">>,
    <<"{", "E", "m", "}">>, <<"{", "U", "0", "}">>, <<"{", "C", "a">> }

\* Faulty variant: the connection already there is left as it is.
closePreviousSkipped == es

\* "If there is a connection already, close it first": the EventSources
\* after the first statement of handleRewrite.
closePrevious ==
  IF eventSourceRef # 0
  THEN [es EXCEPT ![eventSourceRef] = Close(@, "replace")]
  ELSE es

\* handleRewrite.  ready: sourceContent and selectedStyleId are set;
\* throws: rewriteWithStream throws (new EventSource rejects the URL).
handleRewrite ==
  /\ entry = "HomePage"
  /\ mounted
  /\ EventCount < MaxEvents
  /\ \E ready \in BOOLEAN, throws \in BOOLEAN :
     IF ~ready THEN UNCHANGED <<esVars, pageVars, idsHeard>>
     ELSE LET closedOld == closePrevious
          IN /\ rewrittenContent' = <<>>
             /\ resultWordCount' = 0
             /\ IF throws
                THEN /\ es' = closedOld
                     /\ isLoading' = FALSE
                     /\ UNCHANGED <<log, dropped, heard, eventSourceRef, idsHeard>>
                ELSE /\ es' = Append(closedOld, NewEventSource("HomePage"))
                     /\ log' = Append(log, <<>>)
                     /\ dropped' = Append(dropped, FALSE)
                     /\ heard' = Append(heard, <<>>)
                     /\ idsHeard' = {}
                     /\ eventSourceRef' = Len(es) + 1
                     /\ isLoading' = TRUE
             /\ UNCHANGED <<cancelled, mounted, loadDataCalls>>
  /\ UNCHANGED <<entry, coversVars, stylesVars, taskId, settled, promise, fetch, fetches, bodyVars>>

\* Faulty variant: onChunk shows the chunk in place of the transcript.
PageApplyReplaces(r) ==
  IF r.cbs = <<>> THEN UNCHANGED <<isLoading, rewrittenContent, resultWordCount, loadDataCalls>>
  ELSE LET c == r.cbs[1]
       IN CASE c.cb = "onChunk" ->
                 /\ rewrittenContent' = c.text
                 /\ resultWordCount' = countWords(c.text)
                 /\ UNCHANGED <<isLoading, loadDataCalls>>
            [] c.cb = "onError" ->
                 /\ isLoading' = FALSE
                 /\ UNCHANGED <<rewrittenContent, resultWordCount, loadDataCalls>>
            [] c.cb = "onDone" ->
                 LET finalContent == ToText(c.data.a)
                 IN /\ IF finalContent # <<>>
                       THEN /\ rewrittenContent' = finalContent
                            /\ resultWordCount' =
                                 IF ToNumber(c.data.b) # 0 THEN ToNumber(c.data.b)
                                 ELSE countWords(finalContent)
                       ELSE UNCHANGED <<rewrittenContent, resultWordCount>>
                    /\ isLoading' = FALSE
                    /\ loadDataCalls' = loadDataCalls + 1
            [] OTHER -> UNCHANGED <<isLoading, rewrittenContent, resultWordCount, loadDataCalls>>

\* Faulty variant: onError empties the result panel.
PageApplyClearsOnError(r) ==
  IF r.cbs = <<>> THEN UNCHANGED <<isLoading, rewrittenContent, resultWordCount, loadDataCalls>>
  ELSE LET c == r.cbs[1]
       IN CASE c.cb = "onChunk" ->
                 /\ rewrittenContent' = rewrittenContent \o c.text
                 /\ resultWordCount' = countWords(rewrittenContent \o c.text)
                 /\ UNCHANGED <<isLoading, loadDataCalls>>
            [] c.cb = "onError" ->
                 /\ isLoading' = FALSE
                 /\ rewrittenContent' = <<>>
                 /\ resultWordCount' = 0
                 /\ UNCHANGED loadDataCalls
            [] c.cb = "onDone" ->
                 LET finalContent == ToText(c.data.a)
                 IN /\ IF finalContent # <<>>
                       THEN /\ rewrittenContent' = finalContent
                            /\ resultWordCount' =
                                 IF ToNumber(c.data.b) # 0 THEN ToNumber(c.data.b)
                                 ELSE countWords(finalContent)
                       ELSE UNCHANGED <<rewrittenContent, resultWordCount>>
                    /\ isLoading' = FALSE
                    /\ loadDataCalls' = loadDataCalls + 1
            [] OTHER -> UNCHANGED <<isLoading, rewrittenContent, resultWordCount, loadDataCalls>>

\* Faulty variant: onDone leaves the streamed preview on display.
PageApplyKeepsPreview(r) ==
  IF r.cbs = <<>> THEN UNCHANGED <<isLoading, rewrittenContent, resultWordCount, loadDataCalls>>
  ELSE LET c == r.cbs[1]
       IN CASE c.cb = "onChunk" ->
                 /\ rewrittenContent' = rewrittenContent \o c.text
                 /\ resultWordCount' = countWords(rewrittenContent \o c.text)
                 /\ UNCHANGED <<isLoading, loadDataCalls>>
            [] c.cb = "onError" ->
                 /\ isLoading' = FALSE
                 /\ UNCHANGED <<rewrittenContent, resultWordCount, loadDataCalls>>
            [] c.cb = "onDone" ->
                 /\ UNCHANGED <<rewrittenContent, resultWordCount>>
                 /\ isLoading' = FALSE
                 /\ loadDataCalls' = loadDataCalls + 1
            [] OTHER -> UNCHANGED <<isLoading, rewrittenContent, resultWordCount, loadDataCalls>>

\* The callbacks handleRewrite passes to rewriteWithStream, applied to the
\* invocations r.cbs (at most one for a rewrite stream).
PageApply(r) ==
  IF r.cbs = <<>> THEN UNCHANGED <<isLoading, rewrittenContent, resultWordCount, loadDataCalls>>
  ELSE LET c == r.cbs[1]
       IN CASE c.cb = "onChunk" ->
                 /\ rewrittenContent' = rewrittenContent \o c.text
                 /\ resultWordCount' = countWords(rewrittenContent \o c.text)
                 /\ UNCHANGED <<isLoading, loadDataCalls>>
            [] c.cb = "onError" ->
                 /\ isLoading' = FALSE
                 /\ UNCHANGED <<rewrittenContent, resultWordCount, loadDataCalls>>
            [] c.cb = "onDone" ->
                 LET finalContent == ToText(c.data.a)
                 IN /\ IF finalContent # <<>>
                       THEN /\ rewrittenContent' = finalContent
                            /\ resultWordCount' =
                                 IF ToNumber(c.data.b) # 0 THEN ToNumber(c.data.b)
                                 ELSE countWords(finalContent)
                       ELSE UNCHANGED <<rewrittenContent, resultWordCount>>
                    /\ isLoading' = FALSE
                    /\ loadDataCalls' = loadDataCalls + 1
            [] OTHER -> UNCHANGED <<isLoading, rewrittenContent, resultWordCount, loadDataCalls>>

\* JSON by the grammar of the model's documents.
IsJson(raw) ==
  /\ Len(raw) \in {4, 5}
  /\ raw[1] = "{" /\ raw[Len(raw)] = "}"
  /\ \A i \in 2..(Len(raw) - 1) : raw[i] \notin {"{", "}", NL}

\* What the log keeps of a message event before its handler runs.
Mark(raw) == IF IsJson(raw) THEN <<>> ELSE <<"garbled">>

\* The error event carries no message.
NoMark == <<>>

\* The EventSource s dispatches an event, logged as mark, and its handler
\* does r; a closed EventSource dispatches nothing, whatever arrives.
Deliver(s, mark, r) ==
  IF es[s].readyState = "closed"
  THEN /\ dropped' = [dropped EXCEPT ![s] = TRUE]
       /\ UNCHANGED <<es, log>>
  ELSE /\ EventCount < MaxEvents
       /\ log' = [log EXCEPT ![s] = @ \o mark \o [i \in 1..Len(r.cbs) |-> r.cbs[i].cb]]
       /\ es' = IF r.close
                THEN [es EXCEPT ![s] = Close(@, r.cbs[Len(r.cbs)].cb)]
                ELSE es
       /\ UNCHANGED dropped

\* The event whose handling Deliver(s, ...) logs had event.data = raw.
Hear(s, raw) ==
  heard' = IF es[s].readyState = "closed" THEN heard
           ELSE [heard EXCEPT
                   ![s] = @ \o [i \in 1..(Len(log'[s]) - Len(log[s])) |-> raw]]

\* The id a frame announces to the entry point: a start frame's for HomePage,
\* startRewrite and startReview, the done frame's for startCover.
AnnouncedIds(raw) ==
  LET data == parseSseJson(raw)
  IN IF data = Null THEN {}
     ELSE IF \/ entry \in {"HomePage", "startRewrite", "startReview"} /\ data.type = "start"
             \/ entry = "startCover" /\ data.type = "done"
          THEN {ToNumber(data.a)}
          ELSE {}

\* A message event of a rewrite stream opened by HomePage.
PageMessage ==
  /\ entry = "HomePage"
  /\ \E s \in 1..Len(es) :
       \E raw \in IF es[s].readyState = "closed" THEN {<<>>} ELSE RewriteDocs :
         LET r == rewriteOnMessage(raw, FALSE)
         IN /\ Deliver(s, Mark(raw), r)
            /\ Hear(s, raw)
            /\ IF es[s].readyState = "closed"
               THEN UNCHANGED <<isLoading, rewrittenContent, resultWordCount, loadDataCalls,
                                idsHeard>>
               ELSE /\ PageApply(r)
                    /\ idsHeard' = idsHeard \cup AnnouncedIds(raw)
  /\ UNCHANGED <<entry, coversVars, stylesVars, cancelled, mounted, eventSourceRef, taskId, settled,
                 promise, fetch, fetches, bodyVars>>

\* An error event (transport failure) of a rewrite stream opened by HomePage.
PageTransportError ==
  /\ entry = "HomePage"
  /\ \E s \in 1..Len(es) :
       /\ Deliver(s, NoMark, rewriteOnError)
       /\ Hear(s, <<>>)
       /\ IF es[s].readyState = "closed"
          THEN UNCHANGED <<isLoading, rewrittenContent, resultWordCount, loadDataCalls>>
          ELSE PageApply(rewriteOnError)
  /\ UNCHANGED <<entry, coversVars, stylesVars, cancelled, mounted, eventSourceRef, startVars, bodyVars>>

\* Faulty variant of the cancel button: the handle is dropped and the
\* EventSource behind it is never closed.
handleCancelNoClose ==
  /\ entry = "HomePage"
  /\ mounted
  /\ IF eventSourceRef # 0
     THEN /\ eventSourceRef' = 0
          /\ cancelled' = cancelled \cup {eventSourceRef}
     ELSE UNCHANGED <<eventSourceRef, cancelled>>
  /\ isLoading' = FALSE
  /\ UNCHANGED <<entry, coversVars, stylesVars, es, log, dropped, heard, mounted, rewrittenContent,
                 resultWordCount, loadDataCalls, startVars, bodyVars>>

\* Faulty variant of the cancel button: it also resets the result panel.
handleCancelClearsResult ==
  /\ entry = "HomePage"
  /\ mounted
  /\ IF eventSourceRef # 0
     THEN /\ es' = [es EXCEPT ![eventSourceRef] = Close(@, "cancel")]
          /\ eventSourceRef' = 0
          /\ cancelled' = cancelled \cup {eventSourceRef}
     ELSE UNCHANGED <<es, eventSourceRef, cancelled>>
  /\ isLoading' = FALSE
  /\ rewrittenContent' = <<>>
  /\ resultWordCount' = 0
  /\ UNCHANGED <<entry, coversVars, stylesVars, log, dropped, heard, mounted, loadDataCalls, startVars,
                 bodyVars>>

\* onClick of the cancel button.
handleCancel ==
  /\ entry = "HomePage"
  /\ mounted
  /\ IF eventSourceRef # 0
     THEN /\ es' = [es EXCEPT ![eventSourceRef] = Close(@, "cancel")]
          /\ eventSourceRef' = 0
          /\ cancelled' = cancelled \cup {eventSourceRef}
     ELSE UNCHANGED <<es, eventSourceRef, cancelled>>
  /\ isLoading' = FALSE
  /\ UNCHANGED <<entry, coversVars, stylesVars, log, dropped, heard, mounted, rewrittenContent,
                 resultWordCount, loadDataCalls, startVars, bodyVars>>

\* Faulty variant: the cleanup leaves the connection as it is.
unmountKeepsOpen ==
  /\ entry = "HomePage"
  /\ mounted
  /\ mounted' = FALSE
  /\ UNCHANGED <<entry, coversVars, stylesVars, es, log, dropped, heard, cancelled, isLoading,
                 rewrittenContent, resultWordCount, eventSourceRef, loadDataCalls,
                 startVars, bodyVars>>

\* The cleanup of the unmount effect.
unmount ==
  /\ entry = "HomePage"
  /\ mounted
  /\ mounted' = FALSE
  /\ es' = IF eventSourceRef # 0
           THEN [es EXCEPT ![eventSourceRef] = Close(@, "unmount")]
           ELSE es
  /\ UNCHANGED <<entry, coversVars, stylesVars, log, dropped, heard, cancelled, isLoading, rewrittenContent,
                 resultWordCount, eventSourceRef, loadDataCalls, startVars, bodyVars>>

\* ------------------------------------- startRewrite, startReview, startCover

MissingId ==
  [startRewrite |-> "no rewrite task id", startReview |-> "no review id",
   startCover |-> "no cover id"]

NoFetch == [state |-> "none", id |-> 0]

Pending == [state |-> "pending", error |-> "", record |-> 0]

\* reject(new Error(message)); a promise settles once.
Reject(p, message) ==
  IF p.state = "pending" THEN [p EXCEPT !.state = "rejected", !.error = message] ELSE p

\* resolve(record): the record is known by its id.
Resolve(p, id) ==
  IF p.state = "pending" THEN [p EXCEPT !.state = "resolved", !.record = id] ELSE p

\* The closure of one start call.
Closure == [taskId |-> taskId, settled |-> settled, promise |-> promise,
            fetch |-> fetch, fetches |-> fetches]

\* Faulty variant of onError: the rejection carries a message of its own.
startOnErrorOwnMessage(st, message) ==
  IF ~st.settled
  THEN [st EXCEPT !.settled = TRUE, !.promise = Reject(@, "Unknown error")]
  ELSE st

\* The onError callback of startRewrite, startReview and startCover.
startOnError(st, message) ==
  IF ~st.settled
  THEN [st EXCEPT !.settled = TRUE, !.promise = Reject(@, message)]
  ELSE st

\* Faulty variant of onDone: without an id it returns and rejects nothing.
startFetchOrReturn(st, id, missing) ==
  IF st.settled THEN st
  ELSE IF id = 0
       THEN st
       ELSE [st EXCEPT !.fetch = [state |-> "pending", id |-> id],
                       !.fetches = Append(@, id)]

\* What onDone does with the id it found, up to its await of the fetch.
startFetchOrReject(st, id, missing) ==
  IF st.settled THEN st
  ELSE IF id = 0
       THEN [st EXCEPT !.settled = TRUE, !.promise = Reject(@, missing)]
       ELSE [st EXCEPT !.fetch = [state |-> "pending", id |-> id],
                       !.fetches = Append(@, id)]

\* Faulty variant of onDone: getRewrite is called without looking at taskId.
startRewriteOnDoneUnchecked(st) ==
  IF st.settled THEN st
  ELSE [st EXCEPT !.fetch = [state |-> "pending", id |-> st.taskId],
                  !.fetches = Append(@, st.taskId)]

\* The onDone callback of startRewrite, up to its await of getRewrite.
startRewriteOnDone(st) == startFetchOrReject(st, st.taskId, MissingId.startRewrite)

\* The onDone callback of startReview, up to its await of getReview.
startReviewOnDone(st) == startFetchOrReject(st, st.taskId, MissingId.startReview)

\* The onDone callback of startCover, up to its await of getCover.
startCoverOnDone(st, data) ==
  startFetchOrReject(st, ToNumber(data.a), MissingId.startCover)

\* Faulty variant: an id told by a later start frame is not taken.
startCallbackKeepsFirstId(st, c) ==
  CASE c.cb = "onStart" -> IF st.taskId = 0 THEN [st EXCEPT !.taskId = c.num] ELSE st
    [] c.cb = "onError" -> startOnError(st, c.text[1])
    [] c.cb = "onDone" ->
         CASE entry = "startRewrite" -> startRewriteOnDone(st)
           [] entry = "startReview" -> startReviewOnDone(st)
           [] OTHER -> startCoverOnDone(st, c.data)
    [] OTHER -> st

\* Faulty variant: the record is fetched as soon as onStart tells its id.
startCallbackEagerFetch(st, c) ==
  CASE c.cb = "onStart" ->
         [st EXCEPT !.taskId = c.num,
                    !.fetch = [state |-> "pending", id |-> c.num],
                    !.fetches = Append(@, c.num)]
    [] c.cb = "onError" -> startOnError(st, c.text[1])
    [] c.cb = "onDone" ->
         CASE entry = "startRewrite" -> startRewriteOnDone(st)
           [] entry = "startReview" -> startReviewOnDone(st)
           [] OTHER -> startCoverOnDone(st, c.data)
    [] OTHER -> st

\* The callbacks a start call passes to its stream, applied to one invocation.
startCallback(st, c) ==
  CASE c.cb = "onStart" -> [st EXCEPT !.taskId = c.num]
    [] c.cb = "onError" -> startOnError(st, c.text[1])
    [] c.cb = "onDone" ->
         CASE entry = "startRewrite" -> startRewriteOnDone(st)
           [] entry = "startReview" -> startReviewOnDone(st)
           [] OTHER -> startCoverOnDone(st, c.data)
    [] OTHER -> st

RECURSIVE startApply(_, _)
startApply(st, cbs) ==
  IF cbs = <<>> THEN st ELSE startApply(startCallback(st, Head(cbs)), Tail(cbs))

\* The handlers of the stream the entry point opens.
startOnMessage(raw) ==
  CASE entry = "startRewrite" -> rewriteOnMessage(raw, TRUE)
    [] entry = "startReview" -> reviewOnMessage(raw, TRUE)
    [] OTHER -> coverOnMessage(raw)

startOnTransportError ==
  CASE entry = "startRewrite" -> rewriteOnError
    [] entry = "startReview" -> reviewOnError
    [] OTHER -> coverOnError

\* What the server side may put on the wire of a start call's stream.
StartDocs ==
  { <<"{", "S", "1", "}">>, <<"{", "S", "2", "}">>, <<"{", "S", "0", "}">>,
    <<"{", "S", "-", "}">>, <<"{", "C", "a", "}">>,
    <<"{", "D", "0", "}">>, <<"{", "D", "1", "}">>, <<"{", "D", "-", "}">>,
    <<"{", "E", "m", "}">>, <<"{", "E", "0", "}">>, <<"{", "E", "0", "e", "}">>,
    <<"{", "U", "0", "}">>, <<"{", "D", "1">> }

SetClosure(st) ==
  /\ taskId' = st.taskId
  /\ settled' = st.settled
  /\ promise' = st.promise
  /\ fetch' = st.fetch
  /\ fetches' = st.fetches

\* The rewrites a cover can be generated for.
RewriteIds == {1, 2}

NoCovers == [r \in RewriteIds |-> 0]

\* The cover record that loadData finds on the server.
LoadedCover == 9

\* The promise is created and the stream opened.
OpenStream ==
  /\ promise' = Pending
  /\ es' = <<NewEventSource(entry)>>
  /\ log' = <<<<>>>>
  /\ dropped' = <<FALSE>>
  /\ heard' = <<<<>>>>

\* startRewrite(request), startReview(request).
startCall ==
  /\ entry \in {"startRewrite", "startReview"}
  /\ promise.state = "none"
  /\ OpenStream
  /\ UNCHANGED <<entry, coversVars, stylesVars, cancelled, pageVars, taskId, settled, fetch,
                 fetches, idsHeard, bodyVars>>

\* handleGenerateCover of CoversPage up to its await of startCover(request);
\* without a selected rewrite it returns.
handleGenerateCover ==
  /\ entry = "startCover"
  /\ promise.state = "none"
  /\ selectedRewriteId # 0
  /\ isGenerating' = TRUE
  /\ coverRequest' = selectedRewriteId
  /\ OpenStream
  /\ UNCHANGED <<entry, selectedRewriteId, covers, coversLoading, stylesVars, cancelled,
                 pageVars, taskId, settled, fetch, fetches, idsHeard, bodyVars>>

\* onChange of the rewrite select of CoversPage.
selectRewrite ==
  /\ entry = "startCover"
  /\ \E value \in {0} \cup RewriteIds :
       /\ value # selectedRewriteId
       /\ selectedRewriteId' = value
  /\ UNCHANGED <<entry, covers, isGenerating, coverRequest, coversLoading, stylesVars,
                 esVars, pageVars, startVars, bodyVars>>

\* loadData of CoversPage after its await of getCoversByRewrites: the map of
\* the covers the server lists replaces covers; nothing happens if it failed.
loadDataReturns ==
  /\ entry = "startCover"
  /\ coversLoading
  /\ coversLoading' = FALSE
  /\ \/ covers' = NoCovers
     \/ covers' = [NoCovers EXCEPT ![1] = LoadedCover]
     \/ UNCHANGED covers
  /\ UNCHANGED <<entry, selectedRewriteId, isGenerating, coverRequest, stylesVars,
                 esVars, pageVars, startVars, bodyVars>>

\* Faulty variant: the cover is stored under the rewrite selected now.
afterStartCoverUsesSelection ==
  IF entry = "startCover" /\ promise.state = "pending" /\ promise'.state # "pending"
  THEN /\ covers' = IF promise'.state = "resolved" /\ selectedRewriteId # 0
                    THEN [covers EXCEPT ![selectedRewriteId] = promise'.record]
                    ELSE covers
       /\ isGenerating' = FALSE
       /\ UNCHANGED <<selectedRewriteId, coverRequest, coversLoading>>
  ELSE UNCHANGED coversVars

\* handleGenerateCover after its await of startCover, in the step that
\* settles the promise: setCovers on success, the catch block on failure,
\* finally setIsGenerating(false).
afterStartCover ==
  IF entry = "startCover" /\ promise.state = "pending" /\ promise'.state # "pending"
  THEN /\ covers' = IF promise'.state = "resolved"
                    THEN [covers EXCEPT ![coverRequest] = promise'.record]
                    ELSE covers
       /\ isGenerating' = FALSE
       /\ UNCHANGED <<selectedRewriteId, coverRequest, coversLoading>>
  ELSE UNCHANGED coversVars

\* A message event of the start call's stream.
StartMessage ==
  /\ entry \in StartEntries
  /\ Len(es) = 1
  /\ \E raw \in IF es[1].readyState = "closed" THEN {<<>>} ELSE StartDocs :
       /\ Deliver(1, Mark(raw), startOnMessage(raw))
       /\ Hear(1, raw)
       /\ IF es[1].readyState = "closed"
          THEN UNCHANGED startVars
          ELSE /\ SetClosure(startApply(Closure, startOnMessage(raw).cbs))
               /\ idsHeard' = idsHeard \cup AnnouncedIds(raw)
  /\ afterStartCover
  /\ UNCHANGED <<entry, stylesVars, cancelled, pageVars, bodyVars>>

\* An error event (transport failure) of the start call's stream.
StartTransportError ==
  /\ entry \in StartEntries
  /\ Len(es) = 1
  /\ Deliver(1, NoMark, startOnTransportError)
  /\ Hear(1, <<>>)
  /\ IF es[1].readyState = "closed"
     THEN UNCHANGED startVars
     ELSE /\ SetClosure(startApply(Closure, startOnTransportError.cbs))
          /\ UNCHANGED idsHeard
  /\ afterStartCover
  /\ UNCHANGED <<entry, stylesVars, cancelled, pageVars, bodyVars>>

\* Faulty variant: a fetch that fails is issued once more before onDone gives
\* up.
FetchReturnsRetries ==
  /\ entry \in StartEntries
  /\ fetch.state = "pending"
  /\ \/ /\ fetch' = [fetch EXCEPT !.state = "returned"]
        /\ settled' = TRUE
        /\ promise' = Resolve(promise, fetch.id)
        /\ UNCHANGED fetches
     \/ IF Len(fetches) < 2
        THEN /\ fetches' = Append(fetches, fetch.id)
             /\ UNCHANGED <<fetch, settled, promise>>
        ELSE /\ fetch' = [fetch EXCEPT !.state = "returned"]
             /\ settled' = TRUE
             /\ promise' = Reject(promise, "fetch failed")
             /\ UNCHANGED fetches
  /\ afterStartCover
  /\ UNCHANGED <<entry, stylesVars, esVars, pageVars, taskId, idsHeard, bodyVars>>

\* getRewrite, getReview or getCover returns: onDone resumes after its await.
FetchReturns ==
  /\ entry \in StartEntries
  /\ fetch.state = "pending"
  /\ fetch' = [fetch EXCEPT !.state = "returned"]
  /\ settled' = TRUE
  /\ \/ promise' = Resolve(promise, fetch.id)
     \/ promise' = Reject(promise, "fetch failed")
  /\ afterStartCover
  /\ UNCHANGED <<entry, stylesVars, esVars, pageVars, taskId, fetches, idsHeard, bodyVars>>

\* ------------------------------------------------- chunked response bodies

\* One event of the wire format: the payload line and the blank line.
Block(doc) == DataPrefix \o doc \o <<NL, NL>>

\* An event with a line that is no payload line before its payload line.
BlockWithComment(doc) == <<":", NL>> \o Block(doc)

\* An event the server sends: its payload, and whether a comment line
\* precedes the payload line.
Event(doc, comment) == [doc |-> doc, comment |-> comment]

\* The text of an event on the wire.
Wire(ev) == IF ev.comment THEN BlockWithComment(ev.doc) ELSE Block(ev.doc)

\* The events a style extraction body is made of.
ExtractEvents ==
  { Event(<<"{", "S", "1", "}">>, FALSE), Event(<<"{", "P", "0", "}">>, TRUE),
    Event(<<"{", "C", "a", "}">>, FALSE), Event(<<"{", "C", "L", "}">>, FALSE),
    Event(<<"{", "D", "1", "}">>, FALSE),
    Event(<<"{", "D", "0", "}">>, FALSE), Event(<<"{", "E", "m", "}">>, FALSE),
    Event(<<"{", "U", "0", "}">>, FALSE), Event(<<"{", "C", "a">>, FALSE) }

\* The events a workflow body is made of: node, state.rewrite_id,
\* state.review_id.
WorkflowEvents ==
  { Event(<<"{", "w", "0", "0", "}">>, FALSE), Event(<<"{", "w", "1", "0", "}">>, FALSE),
    Event(<<"{", "v", "2", "1", "}">>, FALSE), Event(<<"{", "w", "1">>, FALSE) }

RECURSIVE Concat(_)
Concat(texts) == IF texts = <<>> THEN <<>> ELSE Head(texts) \o Concat(Tail(texts))

\* The streams of up to MaxBlocks events.
Streams(evs) == UNION { [1..n -> evs] : n \in 0..MaxBlocks }

\* The body that carries a stream of events.
BodyOf(stream) == Concat([i \in 1..Len(stream) |-> Wire(stream[i])])

\* The bodies that may reach the client for a stream: the whole one and, when
\* the connection ends early, the one without the last line break.
BodiesOf(stream) ==
  LET whole == BodyOf(stream)
  IN {whole} \cup (IF whole = <<>> THEN {} ELSE {SubSeq(whole, 1, Len(whole) - 1)})

NoStyle == [set |-> FALSE, id |-> 0]

\* The body of the for loop of extractStyleWithStream for one segment, on
\* st = [createdStyle, frames, thrown]: thrown is the message of the Error
\* thrown, "" while none is.
extractChunk(st, chunk) ==
  LET parsed == DecodeBlock(chunk)
      seen(cb) == Append(st.frames, [type |-> parsed.type, a |-> parsed.a,
                                     b |-> parsed.b, cb |-> cb])
  IN IF parsed = Null THEN st
     ELSE CASE parsed.type = "start" -> [st EXCEPT !.frames = seen("onStart")]
            [] parsed.type = "progress" -> [st EXCEPT !.frames = seen("onProgress")]
            [] parsed.type = "content" -> [st EXCEPT !.frames = seen("onChunk")]
            [] parsed.type = "error" ->
                 [st EXCEPT !.frames = seen("none"),
                            !.thrown = ToMessage(parsed.a, "style extraction failed")]
            [] parsed.type = "done" ->
                 [st EXCEPT !.frames = seen("none"),
                            !.createdStyle = [set |-> TRUE, id |-> ToNumber(parsed.a)]]
            [] OTHER -> [st EXCEPT !.frames = seen("none")]

RECURSIVE extractChunks(_, _)
\* The for loop: it stops at the segment that throws.
extractChunks(st, chunks) ==
  IF chunks = <<>> \/ st.thrown # "" THEN st
  ELSE extractChunks(extractChunk(st, Head(chunks)), Tail(chunks))

\* Faulty variant: the first n characters are kept.
SliceFirst(text, n) ==
  IF Len(text) <= n THEN text ELSE SubSeq(text, 1, n)

\* text.slice(-n)
SliceLast(text, n) ==
  IF Len(text) <= n THEN text ELSE SubSeq(text, Len(text) - n + 1, Len(text))

RECURSIVE StylesApply(_, _)
\* The callbacks handleExtract passes to extractStyleWithStream, applied to
\* the frames fs in order, on page = [preview, status].
StylesApply(page, fs) ==
  IF fs = <<>> THEN page
  ELSE LET f == Head(fs)
           next ==
             CASE f.cb = "onStart" -> [page EXCEPT !.status = "received"]
               [] f.cb = "onProgress" ->
                    [page EXCEPT !.status = ToMessage(f.a, "analysing")]
               [] f.cb = "onChunk" ->
                    [page EXCEPT !.preview = SliceLast(@ \o ToText(f.a), PreviewLimit)]
               [] OTHER -> page
       IN StylesApply(next, Tail(fs))

\* The catch and finally blocks of handleExtract.
handleExtractCatch(message) ==
  /\ extractStatus' = message
  /\ stylesIsLoading' = FALSE

\* handleExtract of StylesPage, with a style name and an article, up to the
\* first read of extractStyleWithStream(request, callbacks): the response is
\* ok or not.
extractCall ==
  /\ entry = "extractStyleWithStream"
  /\ promise.state = "none"
  /\ extractPreview' = <<>>
  /\ \/ /\ promise' = Pending
        /\ \E stream \in Streams(ExtractEvents) :
             sent' = stream /\ body' \in BodiesOf(stream)
        /\ reader' = "open"
        /\ stylesIsLoading' = TRUE
        /\ extractStatus' = "starting"
     \/ /\ promise' = Reject(Pending, "extract style failed")
        /\ handleExtractCatch("extract style failed")
        /\ UNCHANGED <<sent, body, reader>>
  /\ UNCHANGED <<entry, coversVars, esVars, pageVars, taskId, settled, fetch, fetches, idsHeard,
                 pos, buffer, createdStyle, frames, events>>

\* reader.read() returns the next k characters of the body; one pass of the
\* while loop.
extractRead ==
  /\ entry = "extractStyleWithStream"
  /\ promise.state = "pending"
  /\ reader = "open"
  /\ \E k \in 1..(Len(body) - pos) :
     /\ pos' = pos + k
     /\ \E sp \in {SplitBuffer(buffer \o SubSeq(body, pos + 1, pos + k))} :
        \E st \in {extractChunks([createdStyle |-> createdStyle, frames |-> frames,
                                  thrown |-> ""], sp.chunks)} :
        \E page \in {StylesApply([preview |-> extractPreview, status |-> extractStatus],
                                 SubSeq(st.frames, Len(frames) + 1, Len(st.frames)))} :
           /\ buffer' = sp.rest
           /\ createdStyle' = st.createdStyle
           /\ frames' = st.frames
           /\ promise' = IF st.thrown # "" THEN Reject(promise, st.thrown) ELSE promise
           /\ extractPreview' = page.preview
           /\ IF st.thrown # "" THEN handleExtractCatch(st.thrown)
              ELSE extractStatus' = page.status /\ UNCHANGED stylesIsLoading
  /\ UNCHANGED <<entry, coversVars, esVars, pageVars, taskId, settled, fetch, fetches, idsHeard,
                 sent, body, reader, events>>

\* Faulty variant: what is left in the buffer is decoded when the body ends.
extractEndFlushes ==
  /\ entry = "extractStyleWithStream"
  /\ promise.state = "pending"
  /\ reader = "open"
  /\ pos = Len(body)
  /\ reader' = "ended"
  /\ \E st \in {extractChunks([createdStyle |-> createdStyle, frames |-> frames,
                                thrown |-> ""], <<buffer>>)} :
       /\ frames' = st.frames
       /\ createdStyle' = st.createdStyle
       /\ IF ~st.createdStyle.set
          THEN /\ promise' = Reject(promise, "no completion result")
               /\ handleExtractCatch("no completion result")
               /\ UNCHANGED extractPreview
          ELSE /\ promise' = Resolve(promise, st.createdStyle.id)
               /\ extractStatus' = ""
               /\ extractPreview' = <<>>
               /\ stylesIsLoading' = FALSE
  /\ UNCHANGED <<entry, coversVars, esVars, pageVars, taskId, settled, fetch, fetches, idsHeard,
                 sent, body, pos, buffer, events>>

\* reader.read() returns done: the loop ends and the call returns or throws,
\* and handleExtract goes on after its await.
extractEnd ==
  /\ entry = "extractStyleWithStream"
  /\ promise.state = "pending"
  /\ reader = "open"
  /\ pos = Len(body)
  /\ reader' = "ended"
  /\ IF ~createdStyle.set
     THEN /\ promise' = Reject(promise, "no completion result")
          /\ handleExtractCatch("no completion result")
          /\ UNCHANGED extractPreview
     ELSE /\ promise' = Resolve(promise, createdStyle.id)
          /\ extractStatus' = ""
          /\ extractPreview' = <<>>
          /\ stylesIsLoading' = FALSE
  /\ UNCHANGED <<entry, coversVars, esVars, pageVars, taskId, settled, fetch, fetches, idsHeard,
                 sent, body, pos, buffer, createdStyle, frames, events>>

\* reader.read() rejects: the connection failed.
extractReadFails ==
  /\ entry = "extractStyleWithStream"
  /\ promise.state = "pending"
  /\ reader = "open"
  /\ reader' = "errored"
  /\ promise' = Reject(promise, "network error")
  /\ handleExtractCatch("network error")
  /\ UNCHANGED extractPreview
  /\ UNCHANGED <<entry, coversVars, esVars, pageVars, taskId, settled, fetch, fetches, idsHeard,
                 sent, body, pos, buffer, createdStyle, frames, events>>

\* The body of the for loop of runFullWorkflow for one segment.
workflowChunk(evs, chunk) ==
  LET parsed == DecodeBlock(chunk)
  IN IF parsed = Null THEN evs ELSE Append(evs, parsed)

RECURSIVE workflowChunks(_, _)
workflowChunks(evs, chunks) ==
  IF chunks = <<>> THEN evs
  ELSE workflowChunks(workflowChunk(evs, Head(chunks)), Tail(chunks))

\* runFullWorkflow(sourceArticle, styleId, targetWords) up to its first read.
workflowCall ==
  /\ entry = "runFullWorkflow"
  /\ promise.state = "none"
  /\ \/ /\ promise' = Reject(Pending, "styleId is required")
        /\ UNCHANGED <<sent, body, reader>>
     \/ /\ promise' = Reject(Pending, "workflow request failed")
        /\ UNCHANGED <<sent, body, reader>>
     \/ /\ promise' = Pending
        /\ \E stream \in Streams(WorkflowEvents) :
             sent' = stream /\ body' = BodyOf(stream)
        /\ reader' = "open"
  /\ UNCHANGED <<entry, coversVars, stylesVars, esVars, pageVars, taskId, settled, fetch, fetches, idsHeard,
                 pos, buffer, createdStyle, frames, events>>

\* One pass of the while loop of runFullWorkflow.
workflowRead ==
  /\ entry = "runFullWorkflow"
  /\ promise.state = "pending"
  /\ reader = "open"
  /\ \E k \in 1..(Len(body) - pos) :
     /\ pos' = pos + k
     /\ \E sp \in {SplitBuffer(buffer \o SubSeq(body, pos + 1, pos + k))} :
           /\ buffer' = sp.rest
           /\ events' = workflowChunks(events, sp.chunks)
  /\ UNCHANGED <<entry, coversVars, stylesVars, esVars, pageVars, startVars, sent, body, reader, createdStyle,
                 frames>>

RECURSIVE lastRewriteIdOfAny(_)
\* Faulty variant: the rewrite_id of the last event that has one.
lastRewriteIdOfAny(evs) ==
  IF evs = <<>> THEN 0
  ELSE IF ToNumber(evs[Len(evs)].a) # 0 THEN ToNumber(evs[Len(evs)].a)
       ELSE lastRewriteIdOfAny(SubSeq(evs, 1, Len(evs) - 1))

\* Number(lastState?.rewrite_id || 0) and Number(lastState?.review_id || 0).
lastRewriteId(evs) == IF evs = <<>> THEN 0 ELSE ToNumber(evs[Len(evs)].a)
lastReviewId(evs) == IF evs = <<>> THEN 0 ELSE ToNumber(evs[Len(evs)].b)

\* reader.read() returns done: the ids are taken and getRewrite is awaited.
workflowEnd ==
  /\ entry = "runFullWorkflow"
  /\ promise.state = "pending"
  /\ reader = "open"
  /\ pos = Len(body)
  /\ reader' = "ended"
  /\ IF lastRewriteId(events) = 0
     THEN /\ promise' = Reject(promise, "rewrite_id is missing")
          /\ UNCHANGED <<fetch, fetches>>
     ELSE /\ fetch' = [state |-> "pending", id |-> lastRewriteId(events)]
          /\ fetches' = Append(fetches, lastRewriteId(events))
          /\ UNCHANGED promise
  /\ UNCHANGED <<entry, coversVars, stylesVars, esVars, pageVars, taskId, settled, idsHeard,
                 sent, body, pos, buffer, createdStyle, frames, events>>

\* reader.read() rejects: the connection failed.
workflowReadFails ==
  /\ entry = "runFullWorkflow"
  /\ promise.state = "pending"
  /\ reader = "open"
  /\ reader' = "errored"
  /\ promise' = Reject(promise, "network error")
  /\ UNCHANGED <<entry, coversVars, stylesVars, esVars, pageVars, taskId, settled, fetch, fetches, idsHeard,
                 sent, body, pos, buffer, createdStyle, frames, events>>

\* getRewrite or getReview returns to runFullWorkflow.
workflowFetchReturns ==
  /\ entry = "runFullWorkflow"
  /\ fetch.state = "pending"
  /\ \/ /\ promise' = Reject(promise, "fetch failed")
        /\ fetch' = [fetch EXCEPT !.state = "returned"]
        /\ UNCHANGED fetches
     \/ IF Len(fetches) = 1 /\ lastReviewId(events) # 0
        THEN /\ fetch' = [state |-> "pending", id |-> lastReviewId(events)]
             /\ fetches' = Append(fetches, lastReviewId(events))
             /\ UNCHANGED promise
        ELSE /\ promise' = Resolve(promise, fetches[1])
             /\ fetch' = [fetch EXCEPT !.state = "returned"]
             /\ UNCHANGED fetches
  /\ UNCHANGED <<entry, coversVars, stylesVars, esVars, pageVars, taskId, settled, idsHeard, bodyVars>>

\* ----------------------------------------------------------- specification

Init ==
  /\ entry \in Entries
  /\ es = <<>>
  /\ log = <<>>
  /\ dropped = <<>>
  /\ heard = <<>>
  /\ cancelled = {}
  /\ mounted = (entry = "HomePage")
  /\ isLoading = FALSE
  /\ rewrittenContent = <<>>
  /\ resultWordCount = 0
  /\ eventSourceRef = 0
  /\ loadDataCalls = 0
  /\ taskId = 0
  /\ settled = FALSE
  /\ promise = [state |-> "none", error |-> "", record |-> 0]
  /\ fetch = NoFetch
  /\ fetches = <<>>
  /\ idsHeard = {}
  /\ sent = <<>>
  /\ body = <<>>
  /\ pos = 0
  /\ reader = "none"
  /\ buffer = <<>>
  /\ createdStyle = NoStyle
  /\ frames = <<>>
  /\ events = <<>>
  /\ stylesIsLoading = FALSE
  /\ extractStatus = ""
  /\ extractPreview = <<>>
  /\ selectedRewriteId = 0
  /\ covers = NoCovers
  /\ isGenerating = FALSE
  /\ coverRequest = 0
  /\ coversLoading = (entry = "startCover")

Next ==
  \/ handleRewrite
  \/ PageMessage
  \/ PageTransportError
  \/ handleCancel
  \/ unmount
  \/ startCall
  \/ handleGenerateCover
  \/ selectRewrite
  \/ loadDataReturns
  \/ StartMessage
  \/ StartTransportError
  \/ FetchReturns
  \/ extractCall
  \/ extractRead
  \/ extractEnd
  \/ extractReadFails
  \/ workflowCall
  \/ workflowRead
  \/ workflowEnd
  \/ workflowReadFails
  \/ workflowFetchReturns

Spec == Init /\ [][Next]_vars

\* One start call alone, whose record fetch returns once it is issued.
StartInit == Init /\ entry \in StartEntries

StartNext ==
  \/ startCall
  \/ handleGenerateCover
  \/ selectRewrite
  \/ loadDataReturns
  \/ StartMessage
  \/ StartTransportError
  \/ FetchReturns

StartSpec == StartInit /\ [][StartNext]_vars /\ WF_vars(FetchReturns)

\* ------------------------------------------------------------------ claims

Terminal == {"onDone", "onError"}

\* C1: on a stream of rewriteWithStream, reviewWithStream or coverWithStream,
\* onDone or onError is the last callback ever invoked for the handle, and once
\* it has been invoked the EventSource is closed, whatever follows on the wire.
C1_TerminalIsLast ==
  \A s \in 1..Len(es) :
    \A i \in 1..Len(log[s]) :
      log[s][i] \in Terminal => i = Len(log[s]) /\ es[s].readyState = "closed"

\* A stream that ended with onDone or onError and had more arrive after it.
C1_FramesAfterTerminal ==
  \E s \in 1..Len(es) :
    /\ log[s] # <<>>
    /\ log[s][Len(log[s])] \in Terminal
    /\ dropped[s]

\* C2: in extractStyleWithStream no callback is invoked for a frame that
\* follows a done frame, the style returned is the one of the first done
\* frame, and no frame after it turns the outcome into a rejection.
C2_FramesAfterDoneIgnored ==
  entry = "extractStyleWithStream" =>
    LET dones == {i \in 1..Len(frames) : frames[i].type = "done"}
    IN dones # {} =>
         LET first == CHOOSE i \in dones : \A j \in dones : i <= j
         IN /\ \A j \in (first + 1)..Len(frames) : frames[j].cb = "none"
            /\ createdStyle.id = ToNumber(frames[first].a)
            /\ promise.state = "rejected" => promise.error = "network error"

\* The rewrite connections opened by HomePage that are open.
OpenPageSources ==
  {s \in 1..Len(es) : es[s].owner = "HomePage" /\ es[s].readyState = "open"}

\* C3: at most one rewrite connection opened by HomePage is open, and it is
\* the one eventSourceRef holds: handleRewrite closes the earlier one.
C3_SingleFlight ==
  /\ Cardinality(OpenPageSources) <= 1
  /\ \A s \in OpenPageSources : s = eventSourceRef

\* A rewrite was started while the earlier stream was open.
C3_Replaced ==
  \E s \in 1..Len(es) :
    /\ es[s].closedBy = "replace"
    /\ s < Len(es)
    /\ es[Len(es)].readyState = "open"

\* The done frame was handled by the start call.
DoneHandled == Len(es) = 1 /\ \E i \in 1..Len(log[1]) : log[1][i] = "onDone"

RejectedMissingId ==
  /\ promise.state = "rejected"
  /\ promise.error = MissingId[entry]
  /\ fetches = <<>>

\* C4 as stated: when the done frame arrives and the stream announced no
\* positive id, the promise rejects with the missing-id error and no record
\* fetch is issued.
C4_NoPositiveId ==
  (entry \in StartEntries /\ DoneHandled /\ ~(\E id \in idsHeard : id > 0))
    => RejectedMissingId

\* C4: when the done frame arrives and no id is known, the promise rejects
\* with the missing-id error and no record fetch is issued; known is a
\* positive id of a start frame for startRewrite and startReview, and an id of
\* the done frame other than zero for startCover.
C4_NoKnownId ==
  (/\ entry \in StartEntries
   /\ DoneHandled
   /\ IF entry = "startCover" THEN idsHeard \subseteq {0}
      ELSE ~(\E id \in idsHeard : id > 0))
    => RejectedMissingId

\* startRewrite saw a start frame without an id, content, then done.
C4_StartWithoutId ==
  /\ entry = "startRewrite"
  /\ idsHeard = {0}
  /\ log = <<<<"onChunk", "onDone">>>>
  /\ RejectedMissingId

\* C5: extractStyleWithStream does not resolve with a style whose id is the
\* zero placeholder of a done frame that carried no id.
C5_NoIdFails ==
  (entry = "extractStyleWithStream" /\ createdStyle.set /\ createdStyle.id = 0)
    => promise.state # "resolved"

\* C6: once the cancel button closed a stream, no callback of that stream is
\* invoked and the stream stays as it is; a cancel click that finds no handle
\* and no loading flag changes nothing.
C6_CancelledIsSilent ==
  [][ /\ \A s \in cancelled : log'[s] = log[s] /\ es'[s] = es[s]
      /\ (handleCancel /\ eventSourceRef = 0 /\ ~isLoading) => UNCHANGED vars ]_vars

\* A cancelled stream that had invoked callbacks and had more arrive after
\* the cancel.
C6_FramesAfterCancel ==
  \E s \in cancelled :
    /\ es[s].closedBy = "cancel"
    /\ log[s] # <<>>
    /\ dropped[s]

\* C7: the cancel button leaves rewrittenContent and resultWordCount as they
\* are; it closes the connection it holds, clears the handle and the
\* loading flag, and changes nothing else.
C7_CancelKeepsTranscript ==
  [][ handleCancel =>
        /\ rewrittenContent' = rewrittenContent
        /\ resultWordCount' = resultWordCount
        /\ UNCHANGED <<entry, coversVars, stylesVars, log, dropped, heard, mounted, loadDataCalls, startVars,
                       bodyVars>>
        /\ eventSourceRef' = 0
        /\ isLoading' = FALSE
        /\ \A s \in 1..Len(es) :
             IF s = eventSourceRef THEN es'[s].readyState = "closed"
             ELSE es'[s] = es[s] ]_vars

\* A rewrite with a transcript was cancelled.
C7_CancelledWithTranscript ==
  /\ cancelled # {}
  /\ eventSourceRef = 0
  /\ ~isLoading
  /\ rewrittenContent # <<>>
  /\ resultWordCount > 0

\* Every payload the server sent is JSON and the body has every block whole.
WellFormed ==
  /\ \A i \in 1..Len(sent) : IsJson(sent[i].doc)
  /\ body = BodyOf(sent)

\* The events whose text lies whole within the characters read so far.
Arrived ==
  LET whole == {n \in 0..Len(sent) : Len(BodyOf(SubSeq(sent, 1, n))) <= pos}
  IN SubSeq(sent, 1, Cardinality(whole) - 1)

RECURSIVE FramesOf(_, _)
\* The frames of a stream of events, one per JSON payload, in order; with
\* stopAtError, up to the first error frame.
FramesOf(stream, stopAtError) ==
  IF stream = <<>> THEN <<>>
  ELSE LET doc == Head(stream).doc
       IN IF ~IsJson(doc) THEN FramesOf(Tail(stream), stopAtError)
          ELSE <<[type |-> TypeName(doc[2]), a |-> doc[3],
                  b |-> IF Len(doc) = 5 THEN doc[4] ELSE "0"]>>
               \o (IF stopAtError /\ doc[2] = "E" THEN <<>>
                   ELSE FramesOf(Tail(stream), stopAtError))

\* The frames the while loop has decoded.
Decoded ==
  IF entry = "runFullWorkflow" THEN events
  ELSE [i \in 1..Len(frames) |->
          [type |-> frames[i].type, a |-> frames[i].a, b |-> frames[i].b]]

\* C8: for a body of well-formed blocks, however reader.read() cuts it, the
\* frames decoded are those of the blocks that have arrived whole, in order
\* (in extractStyleWithStream up to the error frame that ends the loop): once
\* the body is read, the frames of reading it in one piece, one per block.
C8_CutsDoNotMatter ==
  (entry \in BodyEntries /\ WellFormed) =>
    /\ Decoded = FramesOf(Arrived, entry = "extractStyleWithStream")
    /\ (pos = Len(body) /\ \A i \in 1..Len(sent) : sent[i].doc[2] # "E")
         => Len(Decoded) = Len(sent)

\* A read ended inside the second block of a well-formed body.
C8_CutInsideSecondBlock ==
  /\ entry \in BodyEntries
  /\ WellFormed
  /\ Len(sent) = 2
  /\ Len(Decoded) = 1
  /\ buffer # <<>>
  /\ pos < Len(body)

\* C9: the buffer holds what has arrived of the block that is not whole yet;
\* of a body of one valid block no frame is decoded before the last character
\* has arrived, and exactly one once it has.
C9_PartialBlockWaits ==
  entry \in BodyEntries =>
    /\ buffer = SubSeq(body, Len(BodyOf(Arrived)) + 1, pos)
    /\ (Len(sent) = 1 /\ WellFormed) =>
         /\ pos < Len(body) => Decoded = <<>> /\ buffer = SubSeq(body, 1, pos)
         /\ pos = Len(body) => Len(Decoded) = 1 /\ buffer = <<>>

\* The first part of a single valid block has been read.
C9_FirstPartRead ==
  /\ entry \in BodyEntries
  /\ Len(sent) = 1
  /\ WellFormed
  /\ 0 < pos /\ pos < Len(body)
  /\ buffer = SubSeq(body, 1, pos)
  /\ Decoded = <<>>

\* The step is the handling of a message that is no JSON by EventSource s.
GarbledStep(s) ==
  /\ Len(log'[s]) > Len(log[s])
  /\ log'[s][Len(log[s]) + 1] = "garbled"

\* C10: a message that is no JSON invokes no callback, settles nothing and
\* leaves the EventSource open; in extractStyleWithStream a block that is no
\* JSON gives no frame and no rejection, and the frames decoded are those of
\* the JSON blocks, in order.
C10_GarbledIsDropped ==
  /\ [][ \A s \in 1..Len(es) :
           GarbledStep(s) =>
             /\ log'[s] = Append(log[s], "garbled")
             /\ es' = es
             /\ UNCHANGED <<pageVars, startVars>> ]_vars
  /\ []( (entry = "extractStyleWithStream" /\ ~WellFormed) =>
           /\ Decoded = FramesOf(Arrived, TRUE)
           /\ (/\ promise.state = "rejected"
               /\ \A i \in 1..Len(Decoded) : Decoded[i].type # "error")
                => promise.error \in {"network error", "no completion result"} )

\* A callback was invoked for a frame that followed one that was no JSON.
C10_CallbackAfterGarbled ==
  \E s \in 1..Len(es) :
    \E i \in 1..(Len(log[s]) - 1) :
      log[s][i] = "garbled" /\ log[s][i + 1] # "garbled"

\* The type characters of the frames that have a callback of their own.
KnownTypes == {"S", "P", "C", "D", "E"}

\* C11: the callback invoked for a done frame is onDone and no other, for an
\* error frame onError and no other, and no callback is invoked for a frame
\* of a type outside the known ones; in extractStyleWithStream, which has
\* neither onDone nor onError, none is invoked for any of the three.
C11_DispatchByType ==
  /\ \A s \in 1..Len(es) :
       \A i \in 1..Len(log[s]) :
         IsJson(heard[s][i]) =>
           /\ heard[s][i][2] = "D" => log[s][i] = "onDone"
           /\ heard[s][i][2] = "E" => log[s][i] = "onError"
           /\ heard[s][i][2] \in KnownTypes
  /\ \A i \in 1..Len(frames) :
       frames[i].type \in {"done", "error", "other"} => frames[i].cb = "none"

\* The message of the failure that event.data = doc reports: the empty text
\* is the error event of the transport.
FailureMessage(doc) ==
  IF doc = <<>> THEN "Connection error"
  ELSE IF doc[3] # "0" THEN doc[3]
  ELSE IF entry = "startCover" /\ Len(doc) = 5 /\ doc[4] # "0" THEN doc[4]
  ELSE "Unknown error"

\* The stream of the start call ended with onError.
EndedWithError ==
  /\ entry \in StartEntries
  /\ Len(es) = 1
  /\ log[1] # <<>>
  /\ log[1][Len(log[1])] = "onError"

\* C12: when the stream of startRewrite, startReview or startCover ends with
\* an error frame the promise is rejected with the message of the frame (the
\* default "Unknown error" when it has none), and when it ends with a
\* transport error, with "Connection error".
C12_RejectsWithMessage ==
  EndedWithError =>
    /\ promise.state = "rejected"
    /\ promise.error = FailureMessage(heard[1][Len(heard[1])])

\* A start call was rejected with the message an error frame supplied.
C12_ServerMessage ==
  /\ EndedWithError
  /\ IsJson(heard[1][Len(heard[1])])
  /\ heard[1][Len(heard[1])][3] # "0"
  /\ promise.state = "rejected"
  /\ promise.error = heard[1][Len(heard[1])][3]

\* C13: an EventSource whose stream ended with onDone or onError is closed,
\* and once extractStyleWithStream has returned or thrown, the reader of the
\* response body is not open.
C13_ConnectionReleased ==
  /\ \A s \in 1..Len(es) :
       (log[s] # <<>> /\ log[s][Len(log[s])] \in Terminal)
         => es[s].readyState = "closed"
  /\ (entry = "extractStyleWithStream" /\ promise.state \in {"resolved", "rejected"})
       => reader # "open"

\* C14: a start call issues at most one record fetch, and only when its
\* stream has handled the done frame, has reported no error, and announced
\* the id fetched: a positive id of a start frame, or for startCover the id
\* of the done frame.
C14_FetchOnlyAfterDone ==
  entry \in StartEntries =>
    /\ Len(fetches) <= 1
    /\ fetches # <<>> =>
         /\ DoneHandled
         /\ \A i \in 1..Len(log[1]) : log[1][i] # "onError"
         /\ fetches[1] \in idsHeard
         /\ IF entry = "startCover" THEN fetches[1] # 0 ELSE fetches[1] > 0

\* The record was fetched after done, and the wire went on after it.
C14_FetchedOnce ==
  /\ entry \in StartEntries
  /\ DoneHandled
  /\ Len(fetches) = 1
  /\ fetch.state = "returned"
  /\ dropped[1]

\* C15: a start call whose record fetch has returned and which is rejected
\* had its stream reach done and is rejected with the error of the fetch; a
\* rejection without a returned fetch carries another error; and the fetch
\* that returned was the only one, on the only stream.
C15_FetchErrorIsItsOwn ==
  (entry \in StartEntries /\ promise.state = "rejected") =>
    IF fetch.state = "returned"
    THEN /\ promise.error = "fetch failed"
         /\ DoneHandled
         /\ Len(fetches) = 1
         /\ Len(es) = 1
    ELSE promise.error # "fetch failed"

\* The stream reached done and the fetch of the record failed.
C15_FetchFailed ==
  /\ entry \in StartEntries
  /\ DoneHandled
  /\ fetch.state = "returned"
  /\ promise.state = "rejected"
  /\ promise.error = "fetch failed"

\* The id the stream of the start call told last: in the start frame handed
\* to onStart, for startCover in the done frame.
ToldId ==
  LET told == {i \in 1..Len(log[1]) :
                 log[1][i] = (IF entry = "startCover" THEN "onDone" ELSE "onStart")}
  IN IF told = {} THEN 0
     ELSE LET last == CHOOSE i \in told : \A j \in told : j <= i
          IN IF heard[1][last][3] = "1" THEN 1
             ELSE IF heard[1][last][3] = "2" THEN 2
             ELSE IF heard[1][last][3] = "-" THEN -1
             ELSE 0

\* C16: a start call that resolves, resolves with the record that the one
\* fetch by the id told by its stream returned, after the done frame.
C16_ResolvesWithFetchedRecord ==
  (entry \in StartEntries /\ promise.state = "resolved") =>
    /\ DoneHandled
    /\ fetches = <<ToldId>>
    /\ fetch = [state |-> "returned", id |-> ToldId]
    /\ promise.record = ToldId

\* startRewrite saw start with task_id 1, a content frame and done, and
\* resolved with record 1.
C16_StartContentDone ==
  /\ entry = "startRewrite"
  /\ log = <<<<"onStart", "onChunk", "onDone">>>>
  /\ heard[1][1] = <<"{", "S", "1", "}">>
  /\ promise.state = "resolved"
  /\ promise.record = 1

RECURSIVE Deltas(_)
\* The deltas of the content frames among the messages docs, joined in order.
Deltas(docs) ==
  IF docs = <<>> THEN <<>>
  ELSE (IF IsJson(Head(docs)) /\ Head(docs)[2] = "C" /\ Head(docs)[3] # "0"
        THEN <<Head(docs)[3]>> ELSE <<>>)
       \o Deltas(Tail(docs))

\* The rewrite session of HomePage is in flight: its stream is open.
InFlight ==
  /\ entry = "HomePage"
  /\ eventSourceRef # 0
  /\ es[eventSourceRef].readyState = "open"

\* C17: while the rewrite session of HomePage is in flight, rewrittenContent
\* is the deltas of the content frames the session has received, joined in the
\* order of arrival, from the empty text on.
C17_TranscriptIsDeltas ==
  InFlight => rewrittenContent = Deltas(heard[eventSourceRef])

\* Two content frames have arrived in the session in flight.
C17_TwoDeltas ==
  /\ InFlight
  /\ log[eventSourceRef] = <<"onChunk", "onChunk">>
  /\ Len(rewrittenContent) = 2

RECURSIVE FrameDeltas(_)
\* The deltas of the content frames among the decoded frames fs, joined.
FrameDeltas(fs) ==
  IF fs = <<>> THEN <<>>
  ELSE (IF Head(fs).type = "content" /\ Head(fs).a # "0"
        THEN (IF Head(fs).a = "L" THEN LongText ELSE <<Head(fs).a>>)
        ELSE <<>>)
       \o FrameDeltas(Tail(fs))

\* The preview is the end of the text all, PreviewLimit characters at most.
IsEndOf(preview, all) ==
  /\ Len(preview) = (IF Len(all) <= PreviewLimit THEN Len(all) ELSE PreviewLimit)
  /\ \A i \in 1..Len(preview) : preview[i] = all[Len(all) - Len(preview) + i]

\* C18: the step in which a rewrite stream of HomePage reports an error
\* leaves rewrittenContent and resultWordCount as they are and changes the
\* loading flag only; and after a style extraction of StylesPage has failed,
\* extractPreview still is the content received (the end of it, as far as the
\* preview goes), the loading flag is cleared and the status is the error
\* message.
C18_FailureKeepsContent ==
  /\ [][ \A s \in 1..Len(es) :
           (/\ entry = "HomePage"
            /\ Len(log'[s]) > Len(log[s])
            /\ log'[s][Len(log'[s])] = "onError")
             => /\ rewrittenContent' = rewrittenContent
                /\ resultWordCount' = resultWordCount
                /\ isLoading' = FALSE
                /\ UNCHANGED <<mounted, eventSourceRef, loadDataCalls>> ]_vars
  /\ []( (entry = "extractStyleWithStream" /\ promise.state = "rejected") =>
           /\ IsEndOf(extractPreview, FrameDeltas(frames))
           /\ extractStatus = promise.error
           /\ stylesIsLoading = FALSE )

\* A rewrite stream of HomePage failed after content had been shown.
C18_FailedWithContent ==
  /\ entry = "HomePage"
  /\ eventSourceRef # 0
  /\ log[eventSourceRef] = <<"onChunk", "onError">>
  /\ rewrittenContent # <<>>
  /\ isLoading = FALSE

\* The step is the handling of an error event of the transport by
\* EventSource s.
TransportErrorStep(s) ==
  /\ Len(heard'[s]) > Len(heard[s])
  /\ heard'[s][Len(heard'[s])] = <<>>

\* C19: the handling of a transport error invokes onError once and closes
\* the EventSource, so that no EventSource handles a second one; and an
\* EventSource is created by handleRewrite or by a start call only.
C19_NoReconnect ==
  /\ [][ /\ \A s \in 1..Len(es) :
              TransportErrorStep(s) =>
                /\ log'[s] = Append(log[s], "onError")
                /\ es'[s].readyState = "closed"
                /\ Len(es') = Len(es)
         /\ Len(es') > Len(es) => (handleRewrite \/ startCall \/ handleGenerateCover) ]_vars
  /\ [](\A s \in 1..Len(es) :
          Cardinality({i \in 1..Len(heard[s]) : heard[s][i] = <<>>}) <= 1)

\* A stream ended by a transport error had more arrive on its wire.
C19_WireAfterTransportError ==
  \E s \in 1..Len(es) :
    /\ heard[s] # <<>>
    /\ heard[s][Len(heard[s])] = <<>>
    /\ log[s][Len(log[s])] = "onError"
    /\ es[s].closedBy = "onError"
    /\ dropped[s]

\* What HomePage shows of the rewrite session.
SessionState == <<isLoading, rewrittenContent, resultWordCount, loadDataCalls>>

\* C20: a rewrite session of HomePage that was replaced or cancelled invokes
\* no callback any more, and what the page shows of the session changes only
\* in handleRewrite, in the cancel button, and when the one stream that
\* eventSourceRef holds, being open, handles an event.
C20_OldSessionIsolated ==
  [][ /\ \A s \in 1..Len(es) :
           es[s].closedBy \in {"replace", "cancel"} => log'[s] = log[s]
      /\ (entry = "HomePage" /\ SessionState' # SessionState) =>
           \/ handleRewrite
           \/ handleCancel
           \/ /\ eventSourceRef # 0
              /\ es[eventSourceRef].readyState = "open"
              /\ log'[eventSourceRef] # log[eventSourceRef]
              /\ \A s \in 1..Len(es) : s # eventSourceRef => log'[s] = log[s] ]_vars

\* The wire of a replaced session went on while the new session, in flight,
\* showed content of its own.
C20_OldWireNewContent ==
  /\ InFlight
  /\ isLoading
  /\ rewrittenContent # <<>>
  /\ \E s \in 1..Len(es) :
       /\ s # eventSourceRef
       /\ es[s].closedBy = "replace"
       /\ dropped[s]

\* The promise of the entry point is settled.
Settled == promise.state \in {"resolved", "rejected"}

\* The stream of the start call has had onDone or onError invoked.
StreamEnded ==
  /\ entry \in StartEntries
  /\ Len(es) = 1
  /\ \E i \in 1..Len(log[1]) : log[1][i] \in Terminal

\* C21: the promise of startRewrite, startReview or startCover is settled only
\* after its stream gave a done frame, an error frame or a transport error (a
\* stream that stalls leaves it pending for ever), a settled promise never
\* changes, and once the stream gave one of the three the promise is settled
\* as soon as the record fetch, if one was issued, has returned.
C21_SettlesOnce ==
  /\ [](Settled => StreamEnded)
  /\ [][Settled => promise' = promise]_vars
  /\ (StreamEnded ~> Settled)

\* The done frame came, the fetch it issued has returned and the promise is
\* resolved.
C21_SettledAfterFetch ==
  /\ StreamEnded
  /\ log[1][Len(log[1])] = "onDone"
  /\ fetch.state = "returned"
  /\ promise.state = "resolved"

\* The id of the first start frame with a positive id that the stream of
\* the start call gave, 0 when there was none.
FirstStartId ==
  LET told == {i \in 1..Len(log[1]) : log[1][i] = "onStart"}
  IN IF told = {} THEN 0
     ELSE LET first == CHOOSE i \in told : \A j \in told : i <= j
          IN IF heard[1][first][3] = "1" THEN 1 ELSE 2

\* C22: in startRewrite and startReview the captured id is the id of the
\* first start frame that carried a positive one, whatever later start frames
\* carry, and the record fetched is the record of that id.
C22_FirstIdKept ==
  (entry \in {"startRewrite", "startReview"} /\ Len(es) = 1) =>
    /\ taskId = FirstStartId
    /\ \A i \in 1..Len(fetches) : fetches[i] = FirstStartId

\* C23: a rewrite session of HomePage takes the done path (loading cleared,
\* history reloaded) only if a start frame of the session announced a positive
\* record id before the done frame.
C23_DoneNeedsId ==
  (entry = "HomePage" /\ eventSourceRef # 0 /\ log[eventSourceRef] # <<>>
     /\ log[eventSourceRef][Len(log[eventSourceRef])] = "onDone") =>
    \E id \in idsHeard : id > 0

\* The step in which the HomePage session s handles its done frame.
DoneStep(s) ==
  /\ entry = "HomePage"
  /\ Len(log'[s]) = Len(log[s]) + 1
  /\ log'[s][Len(log'[s])] = "onDone"

\* The done frame of the session s.
DoneDoc(s) == heard[s][Len(heard[s])]

\* C24: when a HomePage session handles its done frame, rewrittenContent
\* becomes the frame's final_content when that is not empty, whatever was
\* streamed, and resultWordCount its actual_words when that is not zero and
\* else the count of final_content; with no final_content both stay as the
\* deltas left them.
C24_FinalContentWins ==
  [][\A s \in 1..Len(es) :
       DoneStep(s) =>
         IF DoneDoc(s)'[3] # "0"
         THEN /\ rewrittenContent' = <<DoneDoc(s)'[3]>>
              /\ resultWordCount' =
                   IF Len(DoneDoc(s)') = 5 /\ DoneDoc(s)'[4] \in {"1", "2", "-"}
                   THEN (IF DoneDoc(s)'[4] = "1" THEN 1
                         ELSE IF DoneDoc(s)'[4] = "2" THEN 2 ELSE -1)
                   ELSE countWords(<<DoneDoc(s)'[3]>>)
         ELSE /\ rewrittenContent' = rewrittenContent
              /\ rewrittenContent = Deltas(heard[s])
              /\ resultWordCount' = resultWordCount
              /\ resultWordCount = countWords(Deltas(heard[s]))]_vars

\* A delta "a" was streamed and the done frame gave final_content "b" with
\* actual_words 2.
C24_FinalDiffersFromPreview ==
  /\ entry = "HomePage"
  /\ eventSourceRef # 0
  /\ heard[eventSourceRef] = << <<"{", "C", "a", "}">>, <<"{", "D", "b", "2", "}">> >>
  /\ rewrittenContent = <<"b">>
  /\ resultWordCount = 2

\* No done frame has been decoded by extractStyleWithStream.
NoDoneDecoded == \A i \in 1..Len(frames) : frames[i].type # "done"

\* The only done frame sent is the last block, and the body ends before the
\* blank line that closes it.
LastDoneCut ==
  /\ sent # <<>>
  /\ body # BodyOf(sent)
  /\ \A i \in 1..Len(sent) :
       (IsJson(sent[i].doc) /\ sent[i].doc[2] = "D") <=> i = Len(sent)

\* C25: in extractStyleWithStream, when the body has ended and no done frame
\* was decoded the call is rejected with the no-completion error, the call
\* resolves only after the body ended with a done frame decoded, and a last
\* done block whose closing blank line never came is not decoded, so that the
\* call does not resolve.
C25_NoDoneNoResult ==
  entry = "extractStyleWithStream" =>
    /\ (reader = "ended" /\ NoDoneDecoded) =>
         promise.state = "rejected" /\ promise.error = "no completion result"
    /\ promise.state = "resolved" => (reader = "ended" /\ ~NoDoneDecoded)
    /\ LastDoneCut => (NoDoneDecoded /\ promise.state # "resolved")

\* The body was the done block without its last line break; it was read to
\* the end and the call rejected.
C25_CutDoneRejected ==
  /\ entry = "extractStyleWithStream"
  /\ LastDoneCut
  /\ Len(sent) = 1
  /\ reader = "ended"
  /\ buffer # <<>>
  /\ promise.state = "rejected"
  /\ promise.error = "no completion result"

\* C26: while HomePage is mounted, isLoading is true exactly when the handle
\* the page keeps is an open connection, and no connection of the page other
\* than that one is open.
C26_LoadingIffOpen ==
  (entry = "HomePage" /\ mounted) =>
    /\ isLoading <=> (eventSourceRef # 0 /\ es[eventSourceRef].readyState = "open")
    /\ \A s \in 1..Len(es) : es[s].readyState = "open" => s = eventSourceRef

\* The page is mounted, its connection was closed by a transport error and
\* the loading flag is down.
C26_ErrorClearedLoading ==
  /\ entry = "HomePage"
  /\ mounted
  /\ eventSourceRef # 0
  /\ es[eventSourceRef].closedBy = "onError"
  /\ heard[eventSourceRef] # <<>>
  /\ heard[eventSourceRef][Len(heard[eventSourceRef])] = <<>>
  /\ ~isLoading

\* The step settles the promise of startCover with a record.
CoverResolves == promise.state = "pending" /\ promise'.state = "resolved"

\* The step settles the promise of startCover with an error.
CoverRejects == promise.state = "pending" /\ promise'.state = "rejected"

\* C27: when startCover resolves the cover is stored under the rewrite id
\* that was selected when handleGenerateCover was called, whatever is selected
\* by then; when it rejects the map is left as it is; and no other step of
\* the generation changes the map (loadData, when it returns, sets the map to
\* what the server lists).
C27_StoredUnderRequestId ==
  [][entry = "startCover" =>
       /\ CoverResolves => covers' = [covers EXCEPT ![coverRequest] = promise'.record]
       /\ CoverRejects => covers' = covers
       /\ covers' # covers => (CoverResolves \/ (coversLoading /\ ~coversLoading'))]_vars

\* A cover was generated for rewrite 1 and stored under it while rewrite 2
\* was the one selected.
C27_SelectionChangedInFlight ==
  /\ entry = "startCover"
  /\ promise.state = "resolved"
  /\ coverRequest = 1
  /\ selectedRewriteId = 2
  /\ covers = [NoCovers EXCEPT ![1] = promise.record]
  /\ promise.record # 0
  /\ ~isGenerating

\* C28: during an extraction on StylesPage the preview has PreviewLimit
\* characters at most and is the end of the deltas received so far, joined in
\* order: all of them while they are no longer than PreviewLimit.
C28_PreviewIsTail ==
  (entry = "extractStyleWithStream" /\ promise.state = "pending") =>
    /\ Len(extractPreview) <= PreviewLimit
    /\ IsEndOf(extractPreview, FrameDeltas(frames))
    /\ Len(FrameDeltas(frames)) <= PreviewLimit => extractPreview = FrameDeltas(frames)

\* The delta "a" and then a delta of PreviewLimit characters were received:
\* the preview has lost the "a".
C28_PreviewCut ==
  /\ entry = "extractStyleWithStream"
  /\ promise.state = "pending"
  /\ Len(frames) = 2
  /\ frames[1].a = "a" /\ frames[1].cb = "onChunk"
  /\ frames[2].a = "L" /\ frames[2].cb = "onChunk"
  /\ extractPreview = LongText

\* The events of the workflow body that are JSON, as sent.
WorkflowSent == FramesOf(sent, FALSE)

\* The rewrite_id and the review_id in the state of the last event sent.
SentRewriteId ==
  IF WorkflowSent = <<>> THEN 0
  ELSE IF WorkflowSent[Len(WorkflowSent)].a = "1" THEN 1
       ELSE IF WorkflowSent[Len(WorkflowSent)].a = "2" THEN 2 ELSE 0

SentReviewId ==
  IF WorkflowSent = <<>> THEN 0
  ELSE IF WorkflowSent[Len(WorkflowSent)].b = "1" THEN 1
       ELSE IF WorkflowSent[Len(WorkflowSent)].b = "2" THEN 2 ELSE 0

\* C29: runFullWorkflow fetches nothing before the body has ended; with no
\* rewrite_id in the state of the last event it then rejects and fetches
\* nothing, whatever earlier events carried; else it fetches the rewrite of
\* that id and, after it, the review of that state's review_id if there is
\* one, and nothing more.
C29_IdsOfLastEvent ==
  entry = "runFullWorkflow" =>
    /\ fetches # <<>> => (reader = "ended" /\ pos = Len(body))
    /\ reader = "ended" =>
         IF SentRewriteId = 0
         THEN /\ fetches = <<>>
              /\ promise.state = "rejected"
              /\ promise.error = "rewrite_id is missing"
         ELSE /\ fetches \in {<<SentRewriteId>>} \cup
                             (IF SentReviewId # 0
                              THEN {<<SentRewriteId, SentReviewId>>} ELSE {})
              /\ promise.state = "resolved" =>
                   Len(fetches) = (IF SentReviewId # 0 THEN 2 ELSE 1)

\* An event with rewrite_id 1 was followed by a last event without one: the
\* body was read to its end and the call rejected with nothing fetched.
C29_EarlierIdIgnored ==
  /\ entry = "runFullWorkflow"
  /\ Len(sent) = 2
  /\ sent[1].doc = <<"{", "w", "1", "0", "}">>
  /\ sent[2].doc = <<"{", "w", "0", "0", "}">>
  /\ reader = "ended"
  /\ fetches = <<>>
  /\ promise.state = "rejected"

\* HomePage has unmounted.
Gone == entry = "HomePage" /\ ~mounted

\* C30: once HomePage has unmounted no connection it opened is open, and from
\* then on no callback of a session is invoked and no state of the page
\* changes, whatever arrives on the wire.
C30_UnmountCloses ==
  /\ [](Gone => \A s \in 1..Len(es) : es[s].readyState = "closed")
  /\ [][Gone => (log' = log /\ UNCHANGED pageVars)]_vars

\* The page unmounted while its session was in flight, and a frame arrived
\* afterwards.
C30_FrameAfterUnmount ==
  /\ Gone
  /\ eventSourceRef # 0
  /\ es[eventSourceRef].closedBy = "unmount"
  /\ log[eventSourceRef] # <<>>
  /\ dropped[eventSourceRef]

====
